---------------------------- MODULE Spec2Model ----------------------------
(***************************************************************************)
(* Model of src/app.py: run_simulation and its four simpy processes        *)
(* (vehicle_generator, vehicle, repair_process, metrics_observer).         *)
(*                                                                         *)
(* The simpy kernel the program drives is modelled as the program uses it: *)
(*   - the environment keeps a heap of events ordered by                   *)
(*     (time, priority, eid); env.step() pops the least one, sets env.now  *)
(*     and runs its callbacks in order;                                    *)
(*   - env.process(g) schedules an Initialize event (URGENT, delay 0);     *)
(*     env.timeout(d) schedules a Timeout event (NORMAL, delay d) and      *)
(*     raises ValueError inside the calling process when d < 0;            *)
(*   - container.get(1)/put(1) append a request to get_queue/put_queue and *)
(*     try the queue at once; a request that can be served changes level   *)
(*     and is scheduled (NORMAL, delay 0); the requesting process resumes  *)
(*     only when that event is dispatched;                                 *)
(*   - a generator that returns (or raises) schedules its Process event    *)
(*     (NORMAL, delay 0); dispatching a failed Process event re-raises;    *)
(*   - env.run(until=t) schedules an URGENT event at t that stops the run. *)
(*                                                                         *)
(* Simulated time is discretised to integers; an interarrival draw is a    *)
(* nondeterministic choice, so that events of different processes can be   *)
(* due at the same simulated time.                                         *)
(***************************************************************************)
EXTENDS Integers, Sequences, FiniteSets, TLC

\* ------------------------------------------------------------------ bounds
MaxArrivals == 3      \* vehicles the generator spawns before its draws go beyond the horizon
MaxDraw     == 2      \* largest interarrival draw that is not beyond the horizon
MaxTime     == 4      \* largest sim_time
MaxSamples  == 3      \* snapshots taken at one simulated time (binds only when record_interval = 0)

\* input domains of a call that satisfies the documented constraints
SupplyValues   == {1, 2}
RepairValues   == {1, 2}
IntervalValues == {1, 2}
HorizonValues  == 1..MaxTime
\* input domains of an arbitrary call
AnySupply   == {0} \cup SupplyValues
AnyRate     == {-1, 0, 1}
AnyRepair   == {-1, 0} \cup RepairValues
AnyInterval == {-1, 0} \cup IntervalValues
AnyHorizon  == {0} \cup HorizonValues

\* simpy.core priorities
URGENT == 0
NORMAL == 1

VARIABLES
  \* the five arguments of run_simulation
  initial_supply, demand_rate, repair_cycle_time, sim_time, record_interval,
  \* the interarrival draws made so far (the stream of random.expovariate)
  seed,
  \* the state of the call
  pc,             \* "start" | "running" | "returned" | "raised"
  now,            \* env.now
  queue,          \* env._queue: the set of scheduled events
  eid,            \* env._eid: the next event id
  level,          \* container.level
  capacity,       \* container.capacity
  get_queue,      \* container.get_queue: vehicle ids, oldest first
  put_queue,      \* container.put_queue: repair ids, oldest first
  counters,       \* counters dict
  timeseries,     \* timeseries list
  final_metrics,  \* final_metrics dict (NoMetrics until the call returns)
  error,          \* the exception the call raised ("" for none)
  \* history
  spawned,        \* vehicles spawned by the generator
  ndraws,         \* draws this call has consumed
  issued,         \* vehicle ids in the order their get was issued
  grants,         \* vehicle ids in the order their get was granted
  released,       \* put requests that succeeded
  last,           \* the event dispatched last
  log,            \* grants, repair starts, puts and repair ends, in the order they happened
  \* a second call with the same arguments and the same draws
  twin

inputs == <<initial_supply, demand_rate, repair_cycle_time, sim_time, record_interval>>
call   == <<pc, now, queue, eid, level, capacity, get_queue, put_queue, counters,
            timeseries, final_metrics, error, spawned, ndraws, issued, grants, released,
            last, log>>
vars   == <<inputs, seed, call, twin>>

NoMetrics == [demand_satisfaction_rate |-> <<0, 1>>, total_arrivals |-> -1, served |-> -1,
              backlog |-> -1, available_supply |-> -1, in_repair |-> -1]
NoEvent   == [time |-> -1, prio |-> -1, eid |-> -1, kind |-> "None", proc |-> "None",
              id |-> 0, exc |-> ""]

\* the call's state as one record, so that a handler is a function of it
Cur == [pc |-> pc, now |-> now, queue |-> queue, eid |-> eid, level |-> level,
        capacity |-> capacity, get_queue |-> get_queue, put_queue |-> put_queue,
        counters |-> counters, timeseries |-> timeseries,
        final_metrics |-> final_metrics, error |-> error, spawned |-> spawned,
        ndraws |-> ndraws, issued |-> issued, grants |-> grants,
        released |-> released, last |-> last, log |-> log]

Commit(s) ==
  /\ pc' = s.pc /\ now' = s.now /\ queue' = s.queue /\ eid' = s.eid
  /\ level' = s.level /\ capacity' = s.capacity
  /\ get_queue' = s.get_queue /\ put_queue' = s.put_queue
  /\ counters' = s.counters /\ timeseries' = s.timeseries
  /\ final_metrics' = s.final_metrics /\ error' = s.error
  /\ spawned' = s.spawned /\ ndraws' = s.ndraws /\ issued' = s.issued
  /\ grants' = s.grants /\ released' = s.released /\ last' = s.last
  /\ log' = s.log

\* the state before line 70
Fresh == [pc |-> "start", now |-> 0, queue |-> {}, eid |-> 0, level |-> 0,
          capacity |-> 0, get_queue |-> <<>>, put_queue |-> <<>>,
          counters |-> [total_arrivals |-> 0, served |-> 0, in_repair |-> 0],
          timeseries |-> <<>>, final_metrics |-> NoMetrics, error |-> "",
          spawned |-> 0, ndraws |-> 0, issued |-> <<>>, grants |-> <<>>,
          released |-> 0, last |-> NoEvent, log |-> <<>>]

\* ------------------------------------------------------------ simpy kernel

\* Before without the eid: events due together with one priority are unordered
Before_noeid(e, f) ==
  \/ e.time < f.time
  \/ e.time = f.time /\ e.prio <= f.prio

\* heap order of env._queue: (time, priority, eid)
Before(e, f) ==
  \/ e.time < f.time
  \/ e.time = f.time /\ e.prio < f.prio
  \/ e.time = f.time /\ e.prio = f.prio /\ e.eid < f.eid

\* Heads of a queue ordered by time and insertion alone
Heads_fifo(q) ==
  {e \in q : \A f \in q :
     f = e \/ e.time < f.time \/ (e.time = f.time /\ e.eid < f.eid)}

\* the events env.step() may pop next (one event: eids are distinct)
Heads(q) == {e \in q : \A f \in q : f = e \/ Before(e, f)}

\* env.schedule(event, priority, delay)
Schedule(s, prio, delay, kind, proc, id, exc) ==
  [s EXCEPT !.queue = @ \cup {[time |-> s.now + delay, prio |-> prio, eid |-> s.eid,
                               kind |-> kind, proc |-> proc, id |-> id, exc |-> exc]},
            !.eid = @ + 1]

\* history: what happened to the unit of demand id, at s.now with s.level in the pool
Note(s, what, id) ==
  [s EXCEPT !.log = Append(@, [what |-> what, id |-> id, time |-> s.now, level |-> s.level])]

\* env.process(generator): the Initialize event of the new process
Process(s, proc, id) == Schedule(s, URGENT, 0, "Initialize", proc, id, "")

\* the generator of process (proc, id) returned: its Process event is triggered
Exit(s, proc, id) == Schedule(s, NORMAL, 0, "Process", proc, id, "")

\* the generator of process (proc, id) raised exc: its Process event fails
Raise(s, proc, id, exc) == Schedule(s, NORMAL, 0, "Process", proc, id, exc)

\* yield env.timeout(delay) in process (proc, id); a negative delay raises ValueError
Timeout(s, delay, proc, id) ==
  IF delay < 0 THEN Raise(s, proc, id, "ValueError")
  ELSE Schedule(s, NORMAL, delay, "Timeout", proc, id, "")

\* DoGet that grants without taking the unit out of the pool
DoGet_keep(s, id) ==
  Schedule(Note([s EXCEPT !.grants = Append(@, id)], "grant", id),
           NORMAL, 0, "Get", "vehicle", id, "")

\* DoGet whose Get event comes one time unit after the grant
DoGet_late(s, id) ==
  Schedule(Note([s EXCEPT !.level = @ - 1, !.grants = Append(@, id)], "grant", id),
           NORMAL, 1, "Get", "vehicle", id, "")

\* Container._do_get on the request of vehicle id: level >= amount, amount = 1
DoGet(s, id) ==
  Schedule(Note([s EXCEPT !.level = @ - 1, !.grants = Append(@, id)], "grant", id),
           NORMAL, 0, "Get", "vehicle", id, "")

\* DoPut that returns two units for one
DoPut_double(s, id) ==
  Schedule([s EXCEPT !.level = @ + 2, !.released = @ + 1],
           NORMAL, 0, "Put", "repair", id, "")

\* Container._do_put on the request of repair id: capacity - level >= amount
DoPut(s, id) ==
  Schedule([s EXCEPT !.level = @ + 1, !.released = @ + 1],
           NORMAL, 0, "Put", "repair", id, "")

\* TriggerGet without the test of level: a waiter is served from an empty pool
RECURSIVE TriggerGet_nocheck(_)
TriggerGet_nocheck(s) ==
  IF s.get_queue # <<>>
  THEN TriggerGet_nocheck(DoGet([s EXCEPT !.get_queue = Tail(@)], Head(s.get_queue)))
  ELSE s

\* BaseResource._trigger_get: serve get_queue from its head while a request succeeds
RECURSIVE TriggerGet(_)
TriggerGet(s) ==
  IF s.get_queue # <<>> /\ s.level >= 1
  THEN TriggerGet(DoGet([s EXCEPT !.get_queue = Tail(@)], Head(s.get_queue)))
  ELSE s

\* BaseResource._trigger_put: serve put_queue from its head while a request succeeds
RECURSIVE TriggerPut(_)
TriggerPut(s) ==
  IF s.put_queue # <<>> /\ s.capacity - s.level >= 1
  THEN TriggerPut(DoPut([s EXCEPT !.put_queue = Tail(@)], Head(s.put_queue)))
  ELSE s

\* Get that serves the caller at once when a unit is there, queued requests or not
Get_barging(s, id) ==
  IF s.level >= 1 THEN DoGet([s EXCEPT !.issued = Append(@, id)], id)
  ELSE [s EXCEPT !.get_queue = Append(@, id), !.issued = Append(@, id)]

\* container.get(1) by vehicle id: queue the request, then try the queue
Get(s, id) ==
  TriggerGet([s EXCEPT !.get_queue = Append(@, id), !.issued = Append(@, id)])

\* container.put(1) by repair id: queue the request, then try the queue
Put(s, id) == TriggerPut([s EXCEPT !.put_queue = Append(@, id)])

\* ------------------------------------------------------------ the processes

\* a draw that falls beyond the horizon
Far == sim_time + 1

\* the values random.expovariate(demand_rate) may return to the call in state s:
\* non-negative for a positive rate, non-positive for a negative one
DrawSet(s) ==
  IF demand_rate > 0
  THEN IF s.spawned < MaxArrivals THEN (0..MaxDraw) \cup {Far} ELSE {Far}
  ELSE IF s.spawned < MaxArrivals THEN {-1, 0} ELSE {-1}

\* vehicle_generator, line 35: draw d and wait for it
vehicle_generator_wait(s, d) ==
  IF demand_rate = 0 THEN Raise(s, "generator", 0, "ZeroDivisionError")
  ELSE Timeout([s EXCEPT !.ndraws = @ + 1], d, "generator", 0)

\* vehicle_generator, lines 34-35: the start of the generator
vehicle_generator_0(s, d) == vehicle_generator_wait(s, d)

\* vehicle_generator, lines 36 and 35: spawn a vehicle, then draw again
vehicle_generator_1(s, d) ==
  vehicle_generator_wait(
    Process([s EXCEPT !.spawned = @ + 1], "vehicle", s.spawned + 1), d)

\* vehicle_0 that does not count the arrival
vehicle_0_uncounted(s, id) == Get(s, id)

\* vehicle, lines 23-25
vehicle_0(s, id) ==
  Get([s EXCEPT !.counters.total_arrivals = @ + 1], id)

\* vehicle_1 that starts two repairs for the one unit
vehicle_1_twice(s, id) ==
  Exit(Process(Process([s EXCEPT !.counters.served = @ + 1], "repair", id), "repair", id),
       "vehicle", id)

\* vehicle, lines 26-28, then the generator returns
vehicle_1(s, id) ==
  Exit(Process([s EXCEPT !.counters.served = @ + 1], "repair", id), "vehicle", id)

\* repair_process_0 whose repair takes no time
repair_process_0_instant(s, id) ==
  Timeout(Note([s EXCEPT !.counters.in_repair = @ + 1], "start", id), 0, "repair", id)

\* repair_process, lines 11-12
repair_process_0(s, id) ==
  Timeout(Note([s EXCEPT !.counters.in_repair = @ + 1], "start", id),
          repair_cycle_time, "repair", id)

\* repair_process, line 14
repair_process_1(s, id) == Put(Note(s, "put", id), id)

\* repair_process_2 decrementing the wrong counter
repair_process_2_served(s, id) ==
  Exit(Note([s EXCEPT !.counters.served = @ - 1], "end", id), "repair", id)

\* repair_process, line 15, then the generator returns
repair_process_2(s, id) ==
  Exit(Note([s EXCEPT !.counters.in_repair = @ - 1], "end", id), "repair", id)

\* served / total_arrivals as a fraction <<numerator, denominator>>, 0 as <<0, 1>>
Rate(c) == IF c.total_arrivals > 0 THEN <<c.served, c.total_arrivals>> ELSE <<0, 1>>

\* metrics_observer, lines 43-51
Snapshot(s) ==
  [time |-> s.now, available_supply |-> s.level, backlog |-> Len(s.get_queue),
   in_repair |-> s.counters.in_repair, total_arrivals |-> s.counters.total_arrivals,
   served |-> s.counters.served, satisfaction_rate |-> Rate(s.counters)]

\* metrics_observer_loop waiting for the wrong parameter
metrics_observer_loop_cycle(s) ==
  Timeout([s EXCEPT !.timeseries = Append(@, Snapshot(s))], repair_cycle_time, "observer", 0)

\* metrics_observer_loop that keeps the newest snapshot only
metrics_observer_loop_reset(s) ==
  Timeout([s EXCEPT !.timeseries = <<Snapshot(s)>>], record_interval, "observer", 0)

\* metrics_observer, lines 43-53: one turn of the loop
metrics_observer_loop(s) ==
  Timeout([s EXCEPT !.timeseries = Append(@, Snapshot(s))], record_interval, "observer", 0)

\* metrics_observer_0 with the wait at the top of the loop: no snapshot at the start
metrics_observer_0_late(s) == Timeout(s, record_interval, "observer", 0)

\* metrics_observer, lines 42-53: the start of the generator, its first turn
metrics_observer_0(s) == metrics_observer_loop(s)

\* metrics_observer, lines 53 and 42-53: the timeout is over, the next turn
metrics_observer_1(s) == metrics_observer_loop(s)

\* run_simulation, lines 81-92
FinalMetrics(s) ==
  [demand_satisfaction_rate |-> Rate(s.counters), total_arrivals |-> s.counters.total_arrivals,
   served |-> s.counters.served, backlog |-> Len(s.get_queue),
   available_supply |-> s.level, in_repair |-> s.counters.in_repair]

\* UntilDelay of a run that still executes the events due at sim_time
UntilDelay_inclusive(s) == sim_time - s.now + 1

\* the delay of the event that ends env.run(until=sim_time)
UntilDelay(s) == sim_time - s.now

\* run_simulation_0 with a container that accepts a capacity of 0
run_simulation_0_anycapacity(s) ==
  LET s1 == [s EXCEPT !.level = initial_supply, !.capacity = initial_supply]
      s2 == Process(s1, "generator", 0)
      s3 == Process(s2, "observer", 0)
  IN IF sim_time <= s3.now THEN [s3 EXCEPT !.pc = "raised", !.error = "ValueError"]
     ELSE [Schedule(s3, URGENT, UntilDelay(s3), "Until", "run", 0, "")
             EXCEPT !.pc = "running"]

\* run_simulation, lines 70-78 up to the first env.step(): simpy.Container raises
\* ValueError for capacity <= 0, env.run for until <= env.now
run_simulation_0(s) ==
  IF initial_supply <= 0 THEN [s EXCEPT !.pc = "raised", !.error = "ValueError"]
  ELSE LET s1 == [s EXCEPT !.level = initial_supply, !.capacity = initial_supply]
           s2 == Process(s1, "generator", 0)
           s3 == Process(s2, "observer", 0)
       IN IF sim_time <= s3.now THEN [s3 EXCEPT !.pc = "raised", !.error = "ValueError"]
          ELSE [Schedule(s3, URGENT, UntilDelay(s3), "Until", "run", 0, "")
                  EXCEPT !.pc = "running"]

\* run_simulation, lines 78-92: env.run returns, final_metrics is computed
run_simulation_1(s) == [s EXCEPT !.pc = "returned", !.final_metrics = FinalMetrics(s)]

\* env.step() raises the exception of a failed process: run_simulation raises it
run_simulation_raise(s, e) == [s EXCEPT !.pc = "raised", !.error = e.exc]

\* the callbacks of event e, in order
Callbacks(s, e, d) ==
  CASE e.kind = "Initialize" /\ e.proc = "generator" -> vehicle_generator_0(s, d)
    [] e.kind = "Timeout"    /\ e.proc = "generator" -> vehicle_generator_1(s, d)
    [] e.kind = "Initialize" /\ e.proc = "observer"  -> metrics_observer_0(s)
    [] e.kind = "Timeout"    /\ e.proc = "observer"  -> metrics_observer_1(s)
    [] e.kind = "Initialize" /\ e.proc = "vehicle"   -> vehicle_0(s, e.id)
    [] e.kind = "Get"                                -> vehicle_1(TriggerPut(s), e.id)
    [] e.kind = "Initialize" /\ e.proc = "repair"    -> repair_process_0(s, e.id)
    [] e.kind = "Timeout"    /\ e.proc = "repair"    -> repair_process_1(s, e.id)
    [] e.kind = "Put"                                -> repair_process_2(TriggerGet(s), e.id)
    [] e.kind = "Process"    /\ e.exc = ""           -> s
    [] e.kind = "Process"    /\ e.exc # ""           -> run_simulation_raise(s, e)
    [] e.kind = "Until"                              -> run_simulation_1(s)

\* env.step(): pop e, advance the clock to it, run its callbacks
Step(s, e, d) ==
  Callbacks([s EXCEPT !.queue = @ \ {e}, !.now = e.time, !.last = e], e, d)

\* whether dispatching e consumes a draw
Consumes(e) == e.proc = "generator" /\ e.kind # "Process" /\ demand_rate # 0

\* the draws random.expovariate may return when e is dispatched
Draws(s, e) == IF Consumes(e) THEN DrawSet(s) ELSE {0}

\* ------------------------------------------------------- the second call

\* no second call is under way
NoTwin == [Fresh EXCEPT !.pc = "none"]

\* one step of a second call t that reads its draws from the stream sd of the
\* first: the states it may reach (it waits when the stream has no draw for it yet)
TwinStep(t, sd) ==
  CASE t.pc = "start"   -> {run_simulation_0(t)}
    [] t.pc = "running" ->
         {IF ~Consumes(e) THEN Step(t, e, 0)
          ELSE IF t.ndraws < Len(sd) THEN Step(t, e, sd[t.ndraws + 1])
          ELSE t : e \in Heads(t.queue)}
    [] OTHER            -> {t}

\* ------------------------------------------------------------------ actions

ValidInputs ==
  /\ initial_supply >= 1 /\ demand_rate > 0 /\ repair_cycle_time > 0
  /\ sim_time > 0 /\ record_interval > 0

\* env.step() on an event of the given kind and process
Dispatch(kind, proc) ==
  /\ \E e \in Heads(queue) :
       /\ e.kind = kind /\ e.proc = proc
       /\ \E d \in Draws(Cur, e) :
            /\ Commit(Step(Cur, e, d))
            /\ seed' = IF Consumes(e) THEN Append(seed, d) ELSE seed
  /\ twin' \in TwinStep(twin, seed')
  /\ UNCHANGED inputs

\* run_simulation is called with arguments simpy accepts
Setup ==
  /\ pc = "start" /\ initial_supply >= 1 /\ sim_time > 0
  /\ Commit(run_simulation_0(Cur))
  /\ twin' \in TwinStep(twin, seed)
  /\ UNCHANGED <<inputs, seed>>

\* run_simulation is called with arguments simpy rejects at once
SetupRaises ==
  /\ pc = "start" /\ ~(initial_supply >= 1 /\ sim_time > 0)
  /\ Commit(run_simulation_0(Cur))
  /\ UNCHANGED <<inputs, seed, twin>>

\* the snapshots recorded at simulated time t
SamplesAt(t) == Cardinality({i \in 1..Len(timeseries) : timeseries[i].time = t})

GeneratorStart == pc = "running" /\ Dispatch("Initialize", "generator")
ObserverStart  == pc = "running" /\ Dispatch("Initialize", "observer")
Arrival        == pc = "running" /\ Dispatch("Timeout", "generator")
VehicleStart   == pc = "running" /\ Dispatch("Initialize", "vehicle")
Granted        == pc = "running" /\ Dispatch("Get", "vehicle")
RepairStart    == pc = "running" /\ Dispatch("Initialize", "repair")
RepairDone     == pc = "running" /\ Dispatch("Timeout", "repair")
Returned       == pc = "running" /\ Dispatch("Put", "repair")
Sample         == pc = "running" /\ SamplesAt(now) < MaxSamples
                                 /\ Dispatch("Timeout", "observer")
VehicleExit    == pc = "running" /\ Dispatch("Process", "vehicle")
RepairExit     == pc = "running" /\ Dispatch("Process", "repair") /\ last'.exc = ""
Finish         == pc = "running" /\ Dispatch("Until", "run")
ProcessRaises  ==
  /\ pc = "running"
  /\ \E p \in {"generator", "observer", "repair"} : Dispatch("Process", p)
  /\ last'.exc # ""

\* the call in state s
CallIs(s) ==
  /\ pc = s.pc /\ now = s.now /\ queue = s.queue /\ eid = s.eid
  /\ level = s.level /\ capacity = s.capacity
  /\ get_queue = s.get_queue /\ put_queue = s.put_queue
  /\ counters = s.counters /\ timeseries = s.timeseries
  /\ final_metrics = s.final_metrics /\ error = s.error
  /\ spawned = s.spawned /\ ndraws = s.ndraws /\ issued = s.issued
  /\ grants = s.grants /\ released = s.released /\ last = s.last
  /\ log = s.log

\* a call whose arguments satisfy the documented constraints
InitValid ==
  /\ initial_supply \in SupplyValues
  /\ demand_rate = 1
  /\ repair_cycle_time \in RepairValues
  /\ sim_time \in HorizonValues
  /\ record_interval \in IntervalValues
  /\ seed = <<>>
  /\ CallIs(Fresh)

Init == InitValid /\ twin = NoTwin

Next ==
  \/ Setup
  \/ GeneratorStart \/ ObserverStart \/ Arrival \/ VehicleStart \/ Granted
  \/ RepairStart \/ RepairDone \/ Returned \/ Sample
  \/ VehicleExit \/ RepairExit
  \/ Finish

Spec == Init /\ [][Next]_vars

\* a call with arbitrary arguments
InitAny ==
  /\ initial_supply \in AnySupply
  /\ demand_rate \in AnyRate
  /\ repair_cycle_time \in AnyRepair
  /\ sim_time \in AnyHorizon
  /\ record_interval \in AnyInterval
  /\ seed = <<>>
  /\ CallIs(Fresh)
  /\ twin = NoTwin

NextAny == Next \/ SetupRaises \/ ProcessRaises

SpecAny == InitAny /\ [][NextAny]_vars

\* two calls with the same arguments that read the same stream of draws
InitTwin == InitValid /\ twin = Fresh

SpecTwin == InitTwin /\ [][Next]_vars

\* the 10-unit run sampled every unit, beside the calls of Spec
InitCadence ==
  \/ Init
  \/ /\ initial_supply = 1
     /\ demand_rate = 1
     /\ repair_cycle_time \in RepairValues
     /\ sim_time = 10
     /\ record_interval = 1
     /\ seed = <<>>
     /\ CallIs(Fresh)
     /\ twin = NoTwin

SpecCadence == InitCadence /\ [][Next]_vars

\* ------------------------------------------------------------------ claims

Snapshots == 1..Len(timeseries)

\* C1: every snapshot in timeseries has available_supply + in_repair equal to
\* initial_supply, also when a grant or a repair completion is due at the time
\* of the sample.
C1_ConservationAtSamples ==
  \A i \in Snapshots :
    timeseries[i].available_supply + timeseries[i].in_repair = initial_supply

\* C2: every snapshot in timeseries has backlog equal to total_arrivals - served,
\* also when a grant happens at the time of the sample.
C2_BacklogIdentityAtSamples ==
  \A i \in Snapshots :
    timeseries[i].backlog = timeseries[i].total_arrivals - timeseries[i].served

\* C3: once the container exists, capacity is initial_supply, level stays within
\* 0..capacity, and level is initial_supply less one per granted get plus one per
\* completed put (each acquire and each release moves level by exactly 1).
C3_LevelWithinCapacity ==
  pc \in {"running", "returned"} =>
    /\ capacity = initial_supply
    /\ 0 <= level /\ level <= capacity
    /\ level = initial_supply - Len(grants) + released

C3_Witness ==
  /\ pc = "running" /\ level = 0 /\ released >= 1 /\ Len(grants) >= 2
  /\ get_queue # <<>>

\* C4: gets are granted in the order they were issued: the granted demands are
\* always the first ones issued, so no demand is granted while an earlier one waits.
C4_FifoGrants ==
  /\ Len(grants) <= Len(issued)
  /\ grants = SubSeq(issued, 1, Len(grants))
  /\ \A i \in 1..Len(get_queue) : get_queue[i] = issued[Len(grants) + i]

\* a demand issued its get while a returned unit was in the pool and an earlier
\* demand was queued: the unit went to the queued demand, the newcomer waits
C4_Witness ==
  /\ last.kind = "Initialize" /\ last.proc = "vehicle"
  /\ get_queue # <<>> /\ get_queue[Len(get_queue)] = last.id
  /\ \E p \in queue : p.kind = "Put" /\ p.time = now
  /\ \E g \in queue : g.kind = "Get" /\ g.eid = eid - 1 /\ g.id # last.id

\* C5: total_arrivals and served never decrease from one snapshot to the next,
\* nor from the last snapshot to final_metrics.
C5_Monotone ==
  /\ \A i \in Snapshots : \A j \in Snapshots :
       i < j => /\ timeseries[i].total_arrivals <= timeseries[j].total_arrivals
                /\ timeseries[i].served <= timeseries[j].served
  /\ pc = "returned" =>
       \A i \in Snapshots :
         /\ timeseries[i].total_arrivals <= final_metrics.total_arrivals
         /\ timeseries[i].served <= final_metrics.served

C5_Witness ==
  /\ pc = "returned" /\ Len(timeseries) >= 2
  /\ timeseries[1].served < timeseries[Len(timeseries)].served
  /\ timeseries[Len(timeseries)].served < final_metrics.served
  /\ timeseries[Len(timeseries)].total_arrivals < final_metrics.total_arrivals
  /\ released >= 1

\* C6 as claimed: when run_simulation returns, every event due at sim_time or
\* before has been executed; only events due strictly after sim_time are left.
C6_HorizonInclusive ==
  pc = "returned" => \A e \in queue : e.time > sim_time

\* C6 as amended: the horizon is exclusive. Every event executed by the run is due
\* strictly before sim_time, so is every snapshot; the run ends at sim_time, and
\* the events left unexecuted are exactly those due at sim_time or later.
C6_HorizonExclusive ==
  /\ pc = "running" /\ last # NoEvent => last.time < sim_time
  /\ \A i \in Snapshots : timeseries[i].time < sim_time
  /\ pc = "returned" =>
       /\ last.kind = "Until" /\ now = sim_time
       /\ \A e \in queue : e.time >= sim_time

\* a sample, an arrival and a repair completion due at sim_time are all left
C6_Witness ==
  /\ pc = "returned"
  /\ \E e \in queue : e.time = sim_time /\ e.kind = "Timeout" /\ e.proc = "observer"
  /\ \E e \in queue : e.time = sim_time /\ e.kind = "Timeout" /\ e.proc = "generator"
  /\ \E e \in queue : e.time = sim_time /\ e.kind = "Timeout" /\ e.proc = "repair"

\* C7: the i-th snapshot is taken at time (i-1)*record_interval, so consecutive
\* snapshots are exactly record_interval apart; a returned run holds one snapshot
\* per multiple of record_interval in its horizon, and with record_interval = 1 and
\* sim_time = 10 that is 10 or 11 snapshots.
C7_SamplingCadence ==
  /\ \A i \in Snapshots : timeseries[i].time = (i - 1) * record_interval
  /\ pc = "returned" =>
       /\ (Len(timeseries) - 1) * record_interval < sim_time
       /\ sim_time <= Len(timeseries) * record_interval
  /\ pc = "returned" /\ record_interval = 1 /\ sim_time = 10 =>
       Len(timeseries) \in {10, 11}

C7_Witness ==
  /\ pc = "returned" /\ record_interval = 1 /\ sim_time = 10
  /\ Len(timeseries) = 10 /\ counters.served >= 2

\* C8: the first snapshot is taken at time 0 before any arrival, with all counters
\* 0 and the whole supply available, also when the first interarrival draw is 0.
C8_FirstSnapshot ==
  /\ counters.total_arrivals > 0 \/ pc = "returned" => Len(timeseries) >= 1
  /\ Len(timeseries) >= 1 =>
       timeseries[1] = [time |-> 0, available_supply |-> initial_supply, backlog |-> 0,
                        in_repair |-> 0, total_arrivals |-> 0, served |-> 0,
                        satisfaction_rate |-> <<0, 1>>]

C8_Witness ==
  /\ seed # <<>> /\ seed[1] = 0
  /\ now = 0 /\ counters.total_arrivals >= 1 /\ Len(timeseries) >= 1

\* C9: a call with an argument outside its constraint fails before any event is
\* dispatched: nothing is counted, no snapshot is recorded, and the call never
\* returns a result.
C9_EagerValidation ==
  ~ValidInputs =>
    /\ pc # "returned"
    /\ last = NoEvent
    /\ timeseries = <<>>
    /\ counters = [total_arrivals |-> 0, served |-> 0, in_repair |-> 0]

\* C10: two calls with the same five arguments that read the same stream of draws
\* agree step by step, though each picks its next event on its own: they return
\* together, with identical timeseries and final_metrics.
C10_Determinism ==
  /\ twin.pc = pc
  /\ twin.timeseries = timeseries
  /\ twin.final_metrics = final_metrics
  /\ twin.error = error

C10_Witness ==
  /\ pc = "returned" /\ twin.pc = "returned"
  /\ twin.ndraws = ndraws /\ Len(seed) = ndraws /\ ndraws >= 3
  /\ Len(timeseries) >= 2 /\ final_metrics.served >= 2
  /\ twin.final_metrics = final_metrics

\* the entries of log of one kind, and those of one kind about demand id
Logged(what) == {i \in 1..Len(log) : log[i].what = what}
LoggedOf(what, id) == {i \in Logged(what) : log[i].id = id}

\* the simulated time of the first grant (-1 while nothing was granted)
FirstGrantTime ==
  IF Logged("grant") = {} THEN -1
  ELSE log[CHOOSE i \in Logged("grant") : \A j \in Logged("grant") : i <= j].time

\* the starvation scenario: one unit, and a repair that cannot end within the run
Starvation == initial_supply = 1 /\ repair_cycle_time >= sim_time

\* C11: in the starvation scenario (initial_supply = 1, repair_cycle_time >=
\* sim_time) exactly one demand is ever granted; from the grant on the pool is
\* empty, every snapshot taken at a later simulated time shows served = 1 and
\* available_supply = 0 (no snapshot ever shows served > 1), and final_metrics has
\* served = 1, available_supply = 0 and backlog = total_arrivals - 1.
C11_Starvation ==
  Starvation /\ Logged("grant") # {} =>
    /\ Cardinality(Logged("grant")) = 1 /\ Logged("put") = {}
    /\ level = 0
    /\ \A i \in Snapshots :
         /\ timeseries[i].served <= 1
         /\ timeseries[i].time > FirstGrantTime =>
              /\ timeseries[i].served = 1
              /\ timeseries[i].available_supply = 0
    /\ pc = "returned" =>
         /\ final_metrics.served = 1
         /\ final_metrics.available_supply = 0
         /\ final_metrics.backlog = final_metrics.total_arrivals - 1

\* a starved run that returned: demands arrived after the grant and wait, and a
\* snapshot later than the grant shows them
C11_Witness ==
  /\ Starvation /\ pc = "returned"
  /\ final_metrics.total_arrivals = MaxArrivals /\ final_metrics.backlog >= 2
  /\ \E i \in Snapshots :
       /\ timeseries[i].time > FirstGrantTime /\ FirstGrantTime >= 0
       /\ timeseries[i].backlog >= 1 /\ timeseries[i].served = 1

\* a call whose only argument outside its constraint is initial_supply = 0
ZeroSupply ==
  /\ initial_supply = 0 /\ demand_rate > 0 /\ repair_cycle_time > 0
  /\ sim_time > 0 /\ record_interval > 0

\* C12 as claimed: a call with initial_supply = 0 runs (it does not raise), and
\* every snapshot shows available_supply = 0, served = 0, in_repair = 0 and
\* backlog = total_arrivals.
C12_ZeroSupplyRuns ==
  ZeroSupply =>
    /\ pc # "raised"
    /\ \A i \in Snapshots :
         /\ timeseries[i].available_supply = 0 /\ timeseries[i].served = 0
         /\ timeseries[i].in_repair = 0
         /\ timeseries[i].backlog = timeseries[i].total_arrivals

\* C12 as amended: a call with initial_supply = 0 never runs. The container's
\* construction raises ValueError before any process is created: no event is
\* dispatched, no snapshot is recorded, nothing is counted and nothing is returned.
C12_ZeroSupplyRejected ==
  initial_supply = 0 =>
    /\ pc \in {"start", "raised"}
    /\ pc = "raised" => error = "ValueError"
    /\ queue = {} /\ last = NoEvent
    /\ timeseries = <<>> /\ final_metrics = NoMetrics
    /\ counters = [total_arrivals |-> 0, served |-> 0, in_repair |-> 0]

C12_Witness == ZeroSupply /\ pc = "raised" /\ error = "ValueError"

\* a satisfaction rate <<n, d>> derived from counts served and total as the code
\* derives it: served / total when total > 0, and 0 otherwise
IsRateOf(r, served, total) ==
  /\ total > 0 => r = <<served, total>>
  /\ total = 0 => r = <<0, 1>>
  /\ 0 <= r[1] /\ r[1] <= r[2] /\ r[2] > 0

\* C13: in every snapshot and in final_metrics, served <= total_arrivals, the
\* satisfaction rate is served / total_arrivals when total_arrivals > 0 and 0 when
\* total_arrivals = 0, and so it lies between 0 and 1.
C13_RateBound ==
  /\ \A i \in Snapshots :
       /\ 0 <= timeseries[i].served
       /\ timeseries[i].served <= timeseries[i].total_arrivals
       /\ IsRateOf(timeseries[i].satisfaction_rate, timeseries[i].served,
                   timeseries[i].total_arrivals)
  /\ pc = "returned" =>
       /\ 0 <= final_metrics.served
       /\ final_metrics.served <= final_metrics.total_arrivals
       /\ IsRateOf(final_metrics.demand_satisfaction_rate, final_metrics.served,
                   final_metrics.total_arrivals)

\* a returned run whose snapshots show the rate 0 of no arrival, a rate strictly
\* between 0 and 1, and the rate 1
C13_Witness ==
  /\ pc = "returned"
  /\ \E i \in Snapshots : timeseries[i].total_arrivals = 0
  /\ \E i \in Snapshots :
       /\ 0 < timeseries[i].served
       /\ timeseries[i].served < timeseries[i].total_arrivals
  /\ \E i \in Snapshots :
       /\ timeseries[i].total_arrivals > 0
       /\ timeseries[i].satisfaction_rate[1] = timeseries[i].satisfaction_rate[2]
  /\ final_metrics.total_arrivals > 0

\* the events of one kind and process still scheduled
Pending(kind, proc) == {e \in queue : e.kind = kind /\ e.proc = proc}

\* C14: when run_simulation returns, final_metrics is the live state at sim_time
\* and satisfies available_supply + in_repair = initial_supply and backlog =
\* total_arrivals - served. No grant and no repair completion is half-applied (no
\* vehicle waits to start or to resume after its grant, no repair waits to start or
\* to resume after its put); the waiting demands are the backlog, and the repairs
\* still waiting for their timeout are in_repair.
C14_FinalConsistent ==
  pc = "returned" =>
    /\ now = sim_time
    /\ final_metrics.available_supply = level
    /\ final_metrics.backlog = Len(get_queue)
    /\ final_metrics.in_repair = counters.in_repair
    /\ final_metrics.total_arrivals = counters.total_arrivals
    /\ final_metrics.served = counters.served
    /\ final_metrics.available_supply + final_metrics.in_repair = initial_supply
    /\ final_metrics.backlog = final_metrics.total_arrivals - final_metrics.served
    /\ Pending("Initialize", "vehicle") = {} /\ Pending("Get", "vehicle") = {}
    /\ Pending("Initialize", "repair") = {} /\ Pending("Put", "repair") = {}
    /\ put_queue = <<>>
    /\ final_metrics.in_repair = Cardinality(Pending("Timeout", "repair"))

\* a run that returned with demands waiting, a repair under way, and a repair
\* completion and an arrival due at sim_time itself
C14_Witness ==
  /\ pc = "returned"
  /\ final_metrics.backlog >= 1 /\ final_metrics.in_repair >= 1
  /\ final_metrics.served >= 2
  /\ \E e \in Pending("Timeout", "repair") : e.time = sim_time
  /\ \E e \in Pending("Timeout", "generator") : e.time = sim_time

\* C15: a unit returned by a repair is handed to the head waiter before anything
\* can observe it: no snapshot and no final_metrics shows available_supply >= 1
\* together with backlog >= 1.
C15_ReleaseServesWaiters ==
  /\ \A i \in Snapshots :
       ~(timeseries[i].available_supply >= 1 /\ timeseries[i].backlog >= 1)
  /\ pc = "returned" =>
       ~(final_metrics.available_supply >= 1 /\ final_metrics.backlog >= 1)

\* the demands the generator has spawned
Demands == 1..spawned

\* simulated time t lies behind the call: the clock has passed it, or the run is over
Past(t) == now > t \/ (pc = "returned" /\ t < sim_time)

\* C16: a demand is granted at most once; a grant at simulated time g starts
\* exactly one repair_process, which increments in_repair at time g; the repair
\* puts its unit back once and decrements in_repair once, both at time
\* g + repair_cycle_time and in that order, and has done so once that time lies
\* behind the run (g + repair_cycle_time < sim_time); nothing is put back
\* earlier, later, twice, or without a grant, and in_repair counts the repairs
\* that started and have not ended.
C16_OneRepairPerGrant ==
  /\ \A i \in 1..Len(log) : log[i].id \in Demands /\ log[i].time <= now
  /\ \A id \in Demands :
       /\ Cardinality(LoggedOf("grant", id)) <= 1
       /\ Cardinality(LoggedOf("start", id)) <= 1
       /\ Cardinality(LoggedOf("put", id)) <= 1
       /\ Cardinality(LoggedOf("end", id)) <= 1
       /\ \A i \in LoggedOf("start", id) :
            \E j \in LoggedOf("grant", id) : j < i /\ log[j].time = log[i].time
       /\ \A i \in LoggedOf("put", id) :
            \E j \in LoggedOf("start", id) :
              j < i /\ log[i].time = log[j].time + repair_cycle_time
       /\ \A i \in LoggedOf("end", id) :
            \E j \in LoggedOf("put", id) : j < i /\ log[j].time = log[i].time
       /\ \A j \in LoggedOf("grant", id) :
            /\ Past(log[j].time) => LoggedOf("start", id) # {}
            /\ Past(log[j].time + repair_cycle_time) =>
                 LoggedOf("put", id) # {} /\ LoggedOf("end", id) # {}
  /\ released = Cardinality(Logged("put"))
  /\ counters.in_repair = Cardinality(Logged("start")) - Cardinality(Logged("end"))

\* a run that returned after one unit went round twice (granted, repaired, put
\* back, granted to a demand at the time of the put), the second repair still
\* under way at the horizon
C16_Witness ==
  /\ pc = "returned" /\ counters.in_repair >= 1
  /\ \E i \in Logged("put") : \E j \in Logged("grant") :
       /\ i < j /\ log[j].time = log[i].time /\ log[j].id # log[i].id
       /\ LoggedOf("end", log[i].id) # {}
       /\ LoggedOf("start", log[j].id) # {} /\ LoggedOf("put", log[j].id) = {}
       /\ log[j].time + repair_cycle_time >= sim_time

\* C17 as claimed: events are dispatched in non-decreasing simulated time, and
\* events due at the same simulated time in the order they were scheduled: when
\* an event is dispatched, every other event scheduled at that moment is due
\* later, or due at the same time and scheduled after it.
C17_InsertionOrder ==
  [][last' # last =>
       /\ now' = last'.time /\ now' >= now
       /\ \A f \in queue \ {last'} :
            f.time > last'.time \/ (f.time = last'.time /\ f.eid > last'.eid)]_vars

\* C17 as amended: events are dispatched in non-decreasing simulated time; among
\* events due at the same time the urgent ones (the start of a process, the end
\* of env.run) go before the normal ones (timeouts, grant and put completions,
\* process ends), and only events of one priority go in the order they were
\* scheduled. When an event is dispatched, every other event scheduled at that
\* moment is due later, or at the same time with a lower priority, or at the
\* same time with the same priority and scheduled after it.
C17_PriorityOrder ==
  [][/\ \A e \in queue' :
          e.prio = IF e.kind \in {"Initialize", "Until"} THEN URGENT ELSE NORMAL
     /\ last' # last =>
          /\ now' = last'.time /\ now' >= now
          /\ \A f \in queue \ {last'} :
               \/ f.time > last'.time
               \/ f.time = last'.time /\ f.prio > last'.prio
               \/ f.time = last'.time /\ f.prio = last'.prio /\ f.eid > last'.eid]_vars

\* the start of a vehicle was dispatched while the completion of an earlier
\* grant, due at the same time and scheduled before it, is still waiting
C17_Witness ==
  /\ last.kind = "Initialize" /\ last.proc = "vehicle" /\ last.prio = URGENT
  /\ \E f \in queue :
       /\ f.kind = "Get" /\ f.prio = NORMAL
       /\ f.time = last.time /\ f.eid < last.eid

\* the step dispatches an event of metrics_observer (its start or its timeout)
SampleStep == last' # last /\ last'.proc = "observer" /\ last'.kind # "Process"

\* C18: a step of metrics_observer appends exactly one snapshot, the one of the
\* state it found, and leaves the pool's level, both queues of the pool and all
\* counters unchanged; no other step (arrival, grant, repair, end of the run)
\* changes timeseries; and a snapshot once appended is never modified or removed.
C18_SamplingReadOnly ==
  [][/\ SampleStep =>
          /\ timeseries' = Append(timeseries,
                [time |-> now', available_supply |-> level,
                 backlog |-> Len(get_queue), in_repair |-> counters.in_repair,
                 total_arrivals |-> counters.total_arrivals,
                 served |-> counters.served, satisfaction_rate |-> Rate(counters)])
          /\ level' = level /\ capacity' = capacity
          /\ get_queue' = get_queue /\ put_queue' = put_queue
          /\ counters' = counters
     /\ ~SampleStep => timeseries' = timeseries
     /\ Len(timeseries') >= Len(timeseries)
     /\ \A i \in Snapshots : timeseries'[i] = timeseries[i]]_vars

\* a sample taken while a unit is out, a demand waits and earlier snapshots exist
C18_Witness ==
  /\ last.kind = "Timeout" /\ last.proc = "observer"
  /\ Len(timeseries) >= 3 /\ timeseries[Len(timeseries)].time = now
  /\ level < initial_supply /\ get_queue # <<>> /\ counters.in_repair >= 1

\* C19: whenever repair_process executes container.put(1) the level is at most
\* capacity - 1, so the put succeeds when it is issued (put_queue stays empty and
\* every put issued has raised the level), and in_repair is decremented at the
\* simulated time of the put, which is the time of the repair's timeout.
C19_PutNeverBlocks ==
  /\ put_queue = <<>>
  /\ released = Cardinality(Logged("put"))
  /\ \A i \in Logged("put") :
       /\ 0 <= log[i].level /\ log[i].level <= capacity - 1
       /\ Past(log[i].time) => LoggedOf("end", log[i].id) # {}
  /\ \A i \in Logged("end") :
       \E j \in LoggedOf("put", log[i].id) : j < i /\ log[j].time = log[i].time

\* a run that returned after a repair put its unit back into a pool that was not
\* empty, and one into an empty pool with a demand waiting
C19_Witness ==
  /\ pc = "returned" /\ capacity >= 2
  /\ \E i \in Logged("put") :
       log[i].level = capacity - 1 /\ LoggedOf("end", log[i].id) # {}
  /\ \E i \in Logged("put") : \E j \in Logged("grant") :
       log[i].level = 0 /\ i < j /\ log[j].time = log[i].time

\* the demands that were granted a unit whose repair has not put it back
Outstanding ==
  {id \in Demands : LoggedOf("grant", id) # {} /\ LoggedOf("put", id) = {}}

\* C20: in every state once the pool exists, the states between events of one
\* simulated time included, level plus the number of demands granted a unit whose
\* repair has not put it back is initial_supply, and 0 <= in_repair <=
\* initial_supply.
C20_UnitsConserved ==
  pc \in {"running", "returned"} =>
    /\ level + Cardinality(Outstanding) = initial_supply
    /\ 0 <= counters.in_repair /\ counters.in_repair <= initial_supply

\* between events of one simulated time: a unit was put back and its repair has
\* not resumed (level + in_repair exceeds initial_supply) while another unit was
\* granted and is not yet counted in in_repair
C20_Witness ==
  /\ pc = "running"
  /\ \E e \in Pending("Put", "repair") : e.time = now
  /\ \E e \in Pending("Get", "vehicle") : e.time = now
  /\ level + counters.in_repair # initial_supply
  /\ Cardinality(Outstanding) >= 1 /\ released >= 1

=============================================================================
